---- MODULE Spec2Model ----
(***************************************************************************)
(* A model of cloudflare_monitor.py: the poll / match / compare / notify / *)
(* persist loop of main(), the matcher find_matching_components(), the     *)
(* state store load_last_statuses()/save_last_statuses(), the notifier     *)
(* send_slack_alert() and the fetcher fetch_components().                  *)
(*                                                                         *)
(* Strings that the code inspects character by character (component names, *)
(* targets) are sequences of one-character strings; the webhook URL is a   *)
(* sequence of URL pieces, so that startswith() is a test on its head.     *)
(***************************************************************************)
EXTENDS Integers, Sequences, FiniteSets, TLC

\* ------------------------------------------------------------------------
\* Bounds of the model
\* ------------------------------------------------------------------------

\* The longest component list a fetch returns.
MaxRecords == 2

\* ------------------------------------------------------------------------
\* Values
\* ------------------------------------------------------------------------

\* Python's None: the result of dict.get() on a missing key.
None == "None"

\* Status strings of the upstream feed (an open set; two of its values).
Statuses == {"operational", "major_outage"}

\* str.lower() on one character.
LowerChar(c) ==
  CASE c = "J" -> "j"
    [] c = "S" -> "s"
    [] c = "X" -> "x"
    [] OTHER -> c

\* str.lower()
Lower(s) == [i \in 1..Len(s) |-> LowerChar(s[i])]

\* str.strip(): leading and trailing blanks removed.
RECURSIVE Strip(_)
Strip(s) ==
  IF s = <<>> THEN s
  ELSE IF Head(s) = " " THEN Strip(Tail(s))
  ELSE IF s[Len(s)] = " " THEN Strip(SubSeq(s, 1, Len(s) - 1))
  ELSE s

\* Python's `t in s` on strings: t occurs in s as a contiguous substring.
Contains(t, s) ==
  \E i \in 0..(Len(s) - Len(t)) : SubSeq(s, i + 1, i + Len(t)) = t

\* A key that a record of the feed does not have.
Missing == "<missing>"

\* comp.get("name", ""), comp.get("status", "unknown"): a record of the feed
\* is [name |-> ..., status |-> ...], a field being Missing when the JSON
\* object lacks the key and None when it holds null.
CompName(comp) == IF comp.name = Missing THEN <<>> ELSE comp.name
CompStatus(comp) == IF comp.status = Missing THEN "unknown" ELSE comp.status

\* targets_clean = [t.strip().lower() for t in targets]
TargetsClean(targets) == [i \in 1..Len(targets) |-> Lower(Strip(targets[i]))]

\* The inner loop of find_matching_components: the first target, in the
\* order of targets_clean, that occurs in name_lower (0: none does).
FirstTargetIn(name_lower, targets_clean) ==
  IF \E i \in 1..Len(targets_clean) : Contains(targets_clean[i], name_lower)
  THEN CHOOSE i \in 1..Len(targets_clean) :
         /\ Contains(targets_clean[i], name_lower)
         /\ \A k \in 1..(i - 1) : ~Contains(targets_clean[k], name_lower)
  ELSE 0

\* matches[target] = {...} on a dict kept as the sequence of its items in
\* insertion order: an existing key keeps its place and takes the new value,
\* a new key goes to the end.
DictSet(d, key, val) ==
  IF \E i \in 1..Len(d) : d[i].target = key
  THEN [i \in 1..Len(d) |->
          IF d[i].target = key THEN [target |-> key, data |-> val] ELSE d[i]]
  ELSE Append(d, [target |-> key, data |-> val])

\* The outer loop of find_matching_components over components[1..n].
RECURSIVE MatchLoop(_, _, _)
MatchLoop(components, targets_clean, n) ==
  IF n = 0 THEN <<>>
  ELSE LET matches == MatchLoop(components, targets_clean, n - 1)
           comp == components[n]
           name == CompName(comp)
           i == FirstTargetIn(Lower(name), targets_clean)
       IN IF i = 0 THEN matches
          ELSE DictSet(matches, targets_clean[i],
                       [component_name |-> name, status |-> CompStatus(comp)])

find_matching_components(components, targets) ==
  MatchLoop(components, TargetsClean(targets), Len(components))

\* key in dict, dict[key]
HasKey(d, key) == \E i \in 1..Len(d) : d[i].target = key
Lookup(d, key) == (CHOOSE i \in 1..Len(d) : d[i].target = key)
DictGet(d, key) == d[Lookup(d, key)].data

\* ------------------------------------------------------------------------
\* Inputs of the matcher
\* ------------------------------------------------------------------------

\* Component names of the feed.
MatchNames ==
  { <<"J">>, <<"s">>, <<"J", "s">>, <<"S", "j">>, <<"x">> }

MatchRecords == [name : MatchNames, status : Statuses]

\* All sequences over S of length at most n.
SeqsUpTo(S, n) == UNION { [1..k -> S] : k \in 0..n }

\* TARGET_LOCATIONS as the config resolver leaves it: trimmed, lowercased,
\* non-empty entries, in the order given.
TargetLists ==
  { << <<"j">> >>, << <<"j">>, <<"s">> >>, << <<"s">>, <<"j">> >>,
    << <<"s", "j">>, <<"j">> >> }

\* ------------------------------------------------------------------------
\* Configuration (module level, lines 15-31)
\* ------------------------------------------------------------------------

\* "https://hooks.slack.com/", the prefix send_slack_alert and main require.
SlackPrefix == "https://hooks.slack.com/"

\* SLACK_WEBHOOK_URL values: unset, a URL of another scheme, a Slack URL.
WebhookUrls == { <<>>, <<"http://example.com/", "hook">>, <<SlackPrefix, "T0/B0">> }

\* str.startswith("https://hooks.slack.com/")
StartsWithPrefix(url) == Len(url) >= 1 /\ url[1] = SlackPrefix

\* The default of SLEEP_INTERVAL, in seconds.
DefaultInterval == 60

\* SLEEP_INTERVAL = int(os.getenv("SLEEP_INTERVAL", "60")): any integer the
\* environment gives; int() accepts negative numbers.
SleepIntervals == { -1, DefaultInterval }

\* TARGET_LOCATIONS of the monitored process.
TARGET_LOCATIONS == << <<"j">>, <<"s">> >>

Targets == { TARGET_LOCATIONS[i] : i \in 1..Len(TARGET_LOCATIONS) }

\* ------------------------------------------------------------------------
\* The state store
\* ------------------------------------------------------------------------

\* A Python dict as a function; the empty dict.
EmptyDict == [t \in {} |-> None]

\* dict.get(key): None for a missing key.
Get(d, key) == IF key \in DOMAIN d THEN d[key] ELSE None

\* d[key] = val
Put(d, key, val) == [t \in (DOMAIN d) \cup {key} |-> IF t = key THEN val ELSE d[t]]

\* del d[key], when the key is there
Remove(d, key) == [t \in (DOMAIN d) \ {key} |-> d[t]]

\* The JSON values of a stored status: a string, or null for None.
JsonNull == [json |-> "null", text |-> ""]
JsonString(s) == [json |-> "string", text |-> s]

\* json.dump of one value of the dict, written None as "null".
NullAsString(v) == JsonString(IF v = None THEN "null" ELSE v)

JsonEncode(v) == IF v = None THEN JsonNull ELSE JsonString(v)

\* json.load of one member of the object.
JsonDecode(j) == IF j.json = "null" THEN None ELSE j.text

\* json.dump(last_statuses, f) and json.load(f) for a dict: the members of
\* the JSON object, by key.
json_dump(d) == [t \in DOMAIN d |-> JsonEncode(d[t])]
json_load(members) == [t \in DOMAIN members |-> JsonDecode(members[t])]

\* What STATUS_FILE can hold when the process starts: no file, bytes that are
\* not JSON, a JSON value that is not an object, a JSON object.
AbsentFile == [kind |-> "absent", map |-> EmptyDict]
InvalidFile == [kind |-> "invalid", map |-> EmptyDict]
ListFile == [kind |-> "json_list", map |-> EmptyDict]
ObjectFile(members) == [kind |-> "json_object", map |-> members]

InitialFiles ==
  { AbsentFile, InvalidFile, ListFile, ObjectFile(EmptyDict),
    ObjectFile([t \in {<<"j">>} |-> JsonString("operational")]) }

\* The value of the global last_statuses: a dict, or whatever else
\* json.load returned.
DictValue(d) == [kind |-> "dict", map |-> d]
ListValue == [kind |-> "list", map |-> EmptyDict]

\* load_last_statuses(): `readable` is whether open() and read() succeed.
load_last_statuses(file, readable) ==
  IF file.kind = "absent" THEN DictValue(EmptyDict)
  ELSE IF ~readable THEN DictValue(EmptyDict)
  ELSE IF file.kind = "json_object" THEN DictValue(json_load(file.map))
  ELSE IF file.kind = "json_list" THEN ListValue
  ELSE DictValue(EmptyDict)

\* The outcomes of save_last_statuses(): os.makedirs raises (outside the
\* try), open() raises, the write raises after open() truncated the file,
\* or the file is written.
SaveOutcomes == {"makedirs_error", "open_error", "write_error", "written"}

\* The file after save_last_statuses() with the given outcome.
SavedFile(file, statuses, outcome) ==
  CASE outcome = "written" ->
         IF statuses.kind = "dict" THEN ObjectFile(json_dump(statuses.map)) ELSE ListFile
    [] outcome = "write_error" -> InvalidFile
    [] OTHER -> file

\* Whether save_last_statuses() raises to its caller.
SaveRaises(outcome) == outcome = "makedirs_error"

\* ------------------------------------------------------------------------
\* The notifier
\* ------------------------------------------------------------------------

\* What requests.post can do: HTTP 200, another status, an exception.
PostOutcomes == {"http_200", "http_other", "exception"}

\* send_slack_alert(): how the call ends; it returns normally in each case.
send_slack_alert(url, post) ==
  IF url = <<>> THEN "skipped_unset"
  ELSE IF ~StartsWithPrefix(url) THEN "invalid_url"
  ELSE IF post = "http_200" THEN "sent"
  ELSE "failed"

\* Whether the call posted the message and Slack took it (line 135).
Delivered(result) == result = "sent"

\* ------------------------------------------------------------------------
\* The fetcher
\* ------------------------------------------------------------------------

\* The retry-after default of fetch_components, in seconds.
DefaultRetryAfter == 60

\* The Retry-After header of a 429 response: absent, an integer of seconds
\* (negative ones included), or text int() cannot parse (an HTTP date).
RetryHints ==
  { [kind |-> "absent", n |-> 0], [kind |-> "int", n |-> 30],
    [kind |-> "int", n |-> -5], [kind |-> "text", n |-> 0] }

NoHint == [kind |-> "none", n |-> 0]

\* Component records of the feed the monitored process polls.
FetchNames == { <<"J">>, <<"s">> }
FetchRecords == [name : FetchNames, status : Statuses]
FetchBodies == SeqsUpTo(FetchRecords, MaxRecords)

\* Lines 148-151: the seconds fetch_components sleeps on a 429 (a sequence:
\* empty when int() or time.sleep() raises and the handler returns []).
RateLimitSleeps(hint) ==
  IF hint.kind = "text" THEN <<>>
  ELSE LET retry_after == IF hint.kind = "absent" THEN DefaultRetryAfter ELSE hint.n
       IN IF retry_after < 0 THEN <<>> ELSE << <<"backoff", retry_after>> >>

\* An element of the fetched "components" that is no JSON object (a string,
\* a number, null, a list): it has no get method.
NotADict == "<not a dict>"
NonObject == [name |-> <<NotADict>>, status |-> NotADict]
IsRecord(comp) == comp.status # NotADict

\* What data.get("components", []) can be: no such key, null, a number, a
\* string, an object or a list; `items` is what iterating it yields.
ComponentsAbsent == [type |-> "absent", items |-> <<>>]
ComponentsNull == [type |-> "null", items |-> <<>>]
ComponentsNumber == [type |-> "number", items |-> <<>>]
ComponentsString == [type |-> "string", items |-> <<NonObject>>]
ComponentsObject == [type |-> "object", items |-> <<NonObject>>]
ComponentsList(items) == [type |-> "list", items |-> items]

ShapeElements == { [name |-> <<"J">>, status |-> "operational"], NonObject }

ComponentsValues ==
  { ComponentsAbsent, ComponentsNull, ComponentsNumber, ComponentsString,
    ComponentsObject }
    \cup { ComponentsList(items) : items \in SeqsUpTo(ShapeElements, MaxRecords) }

\* The body of a response: text resp.json() cannot parse, a JSON value that
\* is no object, or an object.
ResponseBodies ==
  { [shape |-> "not_json", components |-> ComponentsAbsent],
    [shape |-> "array", components |-> ComponentsAbsent] }
    \cup { [shape |-> "object", components |-> c] : c \in ComponentsValues }

\* What requests.get does: it raises (net = "error") or returns a response
\* with a status code, a Retry-After header, a content type that contains
\* "application/json" or not, and a body.
Responses ==
  [net : {"ok", "error"}, code : {200, 429, 500}, hint : RetryHints,
   json_ct : BOOLEAN, body : ResponseBodies]

\* len(components) of line 162 raises TypeError for None and for a number.
HasLen(c) == c.type \in {"list", "string", "object"}

\* The empty list of lines 151, 158 and 166.
EmptyList == ComponentsList(<<>>)

\* Line 161: data.get("components", []), the value as it is.
ComponentsOrDefault(c) == IF c.type = "absent" THEN EmptyList ELSE c

\* fetch_components() for the response `resp`: the value it returns and the
\* sleeps it makes.
fetch_components(resp) ==
  IF resp.net = "error" THEN [value |-> EmptyList, naps |-> <<>>]
  ELSE IF resp.code = 429
  THEN [value |-> EmptyList, naps |-> RateLimitSleeps(resp.hint)]
  ELSE IF resp.code >= 400 THEN [value |-> EmptyList, naps |-> <<>>]
  ELSE IF ~resp.json_ct THEN [value |-> EmptyList, naps |-> <<>>]
  ELSE IF resp.body.shape # "object" THEN [value |-> EmptyList, naps |-> <<>>]
  ELSE LET components == ComponentsOrDefault(resp.body.components)
       IN IF HasLen(components)
          THEN [value |-> components, naps |-> <<>>]
          ELSE [value |-> EmptyList, naps |-> <<>>]

\* ------------------------------------------------------------------------
\* The process
\* ------------------------------------------------------------------------

VARIABLES
  pc,                \* where the process is: "start", "load", "fetch", "got",
                     \* "compare", "send", "update", "save", "sleep",
                     \* "exited", "crashed"
  SLACK_WEBHOOK_URL, \* configuration
  SLEEP_INTERVAL,    \* configuration
  status_file,       \* the content of STATUS_FILE
  last_statuses,     \* the global last_statuses
  components,        \* main's local: the last fetch result
  current_matches,   \* main's local: the dict the for loop iterates
  idx,               \* position of the for loop in current_matches
  warned,            \* the targets the pass logged as NOT FOUND (line 230)
  exitCode,          \* the exit status of the process (-1: none yet)
  exitCause,         \* what ended the process: "validation" (line 205),
                     \* "shutdown" (a signal or a keyboard interrupt) or
                     \* the class of an exception nothing caught
  fetchKind,         \* how the last fetch_components call ended
  retryHint,         \* the Retry-After header of that call's 429 response
  sendResult,        \* how the send_slack_alert call being handled ended
  cycleStart,        \* last_statuses when the cycle began
  calls,             \* notifier and store calls of the cycle, in order
  sameFetch,         \* the cycle's fetch data equals the previous cycle's
  slept,             \* the sleeps since the last fetch began, in order:
                     \* <<"backoff", s>> (line 150), <<"skip", s>> (line
                     \* 222), <<"interval", s>> (line 251)
  lastFailed,        \* per target whose last notifier call delivered
                     \* nothing: the status that call was given
  interrupted,       \* a signal or a keyboard interrupt has arrived
  did,               \* kinds of effect the process has had so far
  feed,              \* what the status API serves: anything, or one body
  mpc, mcomponents, mtargets, mresult,  \* a call of the matcher alone
  spc, smap, sfile, sresult,            \* a save and a load of the store alone
  fpc, fresponse, fresult               \* a call of the fetcher alone

mvars == <<mpc, mcomponents, mtargets, mresult>>

svars == <<spc, smap, sfile, sresult>>

fvars == <<fpc, fresponse, fresult>>

\* The variables of the functions called alone.
units == <<mvars, svars, fvars>>

config == <<SLACK_WEBHOOK_URL, SLEEP_INTERVAL, feed>>

\* The status API: it may answer each request with any body, or (for the
\* runs in which consecutive cycles observe identical data) with one body.
AnyFeed == [fixed |-> FALSE, body |-> <<>>]
FixedFeed(body) == [fixed |-> TRUE, body |-> body]
Served == IF feed.fixed THEN {feed.body} ELSE FetchBodies

store == <<status_file, last_statuses>>

locals == <<components, current_matches, idx, warned>>

exit == <<exitCode, exitCause, interrupted>>

\* What a pass of the loop records about itself.
pass == <<fetchKind, retryHint, cycleStart, sameFetch>>

pvars == <<pc, config, store, locals, exit, pass, sendResult, calls, slept,
           lastFailed, did>>

vars == <<pvars, units>>

\* Positions inside the try block of the while loop (lines 216-245).
InTry == {"fetch", "got", "compare", "send", "update", "save"}

Running == {"start", "load", "sleep"} \cup InTry

\* Subclasses of Exception that the code can raise.
ExceptionClasses == {"ValueError", "AttributeError", "OSError"}

\* A bare `except:` in place of line 247: it would take SystemExit and
\* KeyboardInterrupt too.
CatchesBaseException(exc) == TRUE

\* `except Exception` (line 247): SystemExit and KeyboardInterrupt are not
\* subclasses of Exception.
CatchesException(exc) == exc \in ExceptionClasses

\* An exception raised at position pc: the loop's handler takes it and goes
\* on to the sleep of line 251, or it leaves main(): SystemExit ends the
\* process with its code, KeyboardInterrupt is turned into sys.exit(0) at
\* lines 257-259, anything else ends the process with a traceback and the
\* exit status 1.
Raise(exc, code, cause) ==
  IF pc \in InTry /\ CatchesException(exc)
  THEN /\ pc' = "sleep"
       /\ UNCHANGED <<exitCode, exitCause>>
  ELSE IF exc = "SystemExit"
  THEN /\ pc' = "exited"
       /\ exitCode' = code
       /\ exitCause' = cause
  ELSE IF exc = "KeyboardInterrupt"
  THEN /\ pc' = "exited"
       /\ exitCode' = 0
       /\ exitCause' = cause
  ELSE /\ pc' = "crashed"
       /\ exitCode' = 1
       /\ exitCause' = exc

\* time.sleep(seconds) raises ValueError for a negative argument.
SleepRaises(seconds) == seconds < 0

MatchIdle ==
  /\ mpc = "idle"
  /\ mcomponents = <<>>
  /\ mtargets = <<>>
  /\ mresult = <<>>

\* Nothing saved, nothing loaded.
NoStoreResult ==
  [before |-> AbsentFile, saved |-> "none", readable |-> FALSE,
   value |-> DictValue(EmptyDict)]

StoreIdle ==
  /\ spc = "idle"
  /\ smap = EmptyDict
  /\ sfile = AbsentFile
  /\ sresult = NoStoreResult

FetchIdle ==
  /\ fpc = "idle"
  /\ fresponse = <<>>
  /\ fresult = <<>>

InitProcess ==
  /\ pc = "start"
  /\ SLACK_WEBHOOK_URL \in WebhookUrls
  /\ SLEEP_INTERVAL \in SleepIntervals
  /\ status_file \in InitialFiles
  /\ last_statuses = DictValue(EmptyDict)
  /\ components = <<>>
  /\ current_matches = <<>>
  /\ idx = 0
  /\ warned = {}
  /\ exitCode = -1
  /\ exitCause = "none"
  /\ fetchKind = "none"
  /\ retryHint = NoHint
  /\ sendResult = "none"
  /\ cycleStart = DictValue(EmptyDict)
  /\ calls = <<>>
  /\ sameFetch = FALSE
  /\ slept = <<>>
  /\ lastFailed = EmptyDict
  /\ interrupted = FALSE
  /\ did = {}
  /\ MatchIdle
  /\ StoreIdle
  /\ FetchIdle

Init ==
  /\ InitProcess
  /\ feed = AnyFeed

\* Line 203: the webhook URL is set and is no Slack URL.
WebhookInvalid(url) == url # <<>> /\ ~StartsWithPrefix(url)

\* Lines 202-205: validate the webhook early.
Validate ==
  /\ pc = "start"
  /\ IF WebhookInvalid(SLACK_WEBHOOK_URL)
     THEN Raise("SystemExit", 1, "validation")
     ELSE /\ pc' = "load"
          /\ UNCHANGED <<exitCode, exitCause>>
  /\ UNCHANGED <<config, store, locals, pass, sendResult, calls, slept,
                 lastFailed, interrupted, did, units>>

\* Line 208: load the persisted statuses.
Load ==
  /\ pc = "load"
  /\ \E readable \in BOOLEAN :
       last_statuses' = load_last_statuses(status_file, readable)
  /\ did' = did \cup {"load"}
  /\ pc' = "fetch"
  /\ UNCHANGED <<config, status_file, locals, exit, pass, sendResult, calls,
                 slept, lastFailed, units>>

\* Line 219: every fetch_components() call returns a list; `kind` is how it
\* ended, `hint` the Retry-After header of a 429 response and `naps` the
\* sleeps of the call.
FetchReturns(kind, hint, result, naps) ==
  /\ pc = "fetch"
  /\ components' = result
  /\ fetchKind' = kind
  /\ retryHint' = hint
  /\ slept' = naps
  /\ sameFetch' = ("fetch" \in did /\ result = components)
  /\ cycleStart' = last_statuses
  /\ calls' = <<>>
  /\ sendResult' = "none"
  /\ did' = did \cup {"fetch"}
  /\ pc' = "got"
  /\ UNCHANGED <<config, store, current_matches, warned, idx, exit, lastFailed, units>>

\* Lines 152-163: a 200 response with a JSON body.
FetchOk == \E body \in Served : FetchReturns("ok", NoHint, body, <<>>)

\* Lines 147-151: a 429 response.
FetchRateLimited ==
  \E hint \in RetryHints :
    FetchReturns("rate_limited", hint, <<>>, RateLimitSleeps(hint))

\* Line 152: raise_for_status() raises, the handler of line 164 returns [].
FetchHttpError == FetchReturns("http_error", NoHint, <<>>, <<>>)

\* Lines 154-158: the content type is not JSON.
FetchBadContentType == FetchReturns("bad_content_type", NoHint, <<>>, <<>>)

\* Lines 164-166: requests.get or resp.json() raises.
FetchException == FetchReturns("exception", NoHint, <<>>, <<>>)

\* Lines 160-163: a 200 response whose "components" holds an element that
\* is no JSON object; fetch_components returns it as it is.
FetchMalformed == FetchReturns("malformed", NoHint, <<NonObject>>, <<>>)

\* Line 223: `continue` takes the loop to its next pass.
AfterSkip == "fetch"

\* Lines 220-223: nothing fetched; sleep the interval and `continue`.
SkipCycle ==
  /\ pc = "got"
  /\ components = <<>>
  /\ IF SleepRaises(SLEEP_INTERVAL)
     THEN /\ Raise("ValueError", 0, "none")
          /\ UNCHANGED slept
     ELSE /\ slept' = Append(slept, <<"skip", SLEEP_INTERVAL>>)
          /\ pc' = AfterSkip
          /\ UNCHANGED <<exitCode, exitCause>>
  /\ UNCHANGED <<config, store, locals, pass, sendResult, calls, lastFailed,
                 interrupted, did, units>>

\* No location is reported.
NoLocations(matches, targets) == {}

\* Lines 228-229: the configured locations that are no key of the match
\* result.

MissingLocations(matches, targets) ==
  { loc \in { targets[i] : i \in 1..Len(targets) } : ~HasKey(matches, loc) }

\* Line 173: comp.get raises AttributeError for a component that is no dict.
MatcherRaises(comps) == \E i \in 1..Len(comps) : ~IsRecord(comps[i])

\* Lines 225-233: match, and warn about every missing location.
Match ==
  /\ pc = "got"
  /\ components # <<>>
  /\ IF MatcherRaises(components)
     THEN /\ Raise("AttributeError", 0, "none")
          /\ UNCHANGED <<current_matches, warned, idx>>
     ELSE /\ current_matches' =
               find_matching_components(components, TARGET_LOCATIONS)
          /\ warned' =
               MissingLocations(current_matches', TargetsClean(TARGET_LOCATIONS))
          /\ idx' = 1
          /\ pc' = "compare"
          /\ UNCHANGED <<exitCode, exitCause>>
  /\ UNCHANGED <<config, store, components, pass, sendResult, calls, slept,
                 lastFailed, interrupted, did, units>>

\* The item the for loop of line 236 is at.
Loc == current_matches[idx].target
CurrentStatus == current_matches[idx].data.status

\* Line 240: current_status != prev_status
Changed(current_status, prev_status) == current_status # prev_status

\* Line 244 placed before line 243: the store is updated without a call of
\* the notifier.
UpdateWithoutSend == "update"

\* Lines 241-243: the statement a detected change leads to is the call of
\* send_slack_alert.
OnChange == "send"

\* Lines 236-240: take the next item and compare it with the stored status;
\* last_statuses.get raises AttributeError when last_statuses is no dict.
Compare ==
  /\ pc = "compare"
  /\ idx <= Len(current_matches)
  /\ IF last_statuses.kind # "dict"
     THEN /\ Raise("AttributeError", 0, "none")
          /\ UNCHANGED idx
     ELSE /\ IF Changed(CurrentStatus, Get(last_statuses.map, Loc))
             THEN pc' = OnChange /\ UNCHANGED idx
             ELSE pc' = "compare" /\ idx' = idx + 1
          /\ UNCHANGED <<exitCode, exitCause>>
  /\ UNCHANGED <<config, store, components, current_matches, warned, pass, sendResult,
                 calls, slept, lastFailed, interrupted, did, units>>

\* Line 236: the for loop is exhausted; on to the sleep of line 251.
EndFor ==
  /\ pc = "compare"
  /\ idx > Len(current_matches)
  /\ pc' = "sleep"
  /\ UNCHANGED <<config, store, locals, exit, pass, sendResult, calls, slept,
                 lastFailed, did, units>>

\* Line 243: send_slack_alert(loc, component_name, current_status).
Send ==
  /\ pc = "send"
  /\ \E post \in PostOutcomes :
       sendResult' = send_slack_alert(SLACK_WEBHOOK_URL, post)
  /\ calls' = Append(calls, <<"send", Loc>>)
  /\ lastFailed' = IF Delivered(sendResult')
                   THEN Remove(lastFailed, Loc)
                   ELSE Put(lastFailed, Loc, CurrentStatus)
  /\ did' = did \cup {"notify"}
  /\ pc' = "update"
  /\ UNCHANGED <<config, store, locals, exit, pass, slept, units>>

\* Line 244 made conditional on the delivery of the notification.
AcknowledgeIfDelivered(statuses, loc, current_status, result) ==
  IF Delivered(result) THEN Put(statuses, loc, current_status) ELSE statuses

\* Line 244: last_statuses[loc] = current_status, whatever `result`, the
\* way send_slack_alert ended, is.
Acknowledge(statuses, loc, current_status, result) ==
  Put(statuses, loc, current_status)

\* Line 244.
Update ==
  /\ pc = "update"
  /\ last_statuses' =
       DictValue(Acknowledge(last_statuses.map, Loc, CurrentStatus, sendResult))
  /\ calls' = Append(calls, <<"set", Loc>>)
  /\ pc' = "save"
  /\ UNCHANGED <<config, status_file, locals, exit, pass, sendResult, slept,
                 lastFailed, did, units>>

\* Line 245: save_last_statuses(), then the next item of the for loop.
Save ==
  /\ pc = "save"
  /\ \E outcome \in SaveOutcomes :
       /\ status_file' = SavedFile(status_file, last_statuses, outcome)
       /\ IF SaveRaises(outcome)
          THEN /\ Raise("OSError", 0, "none")
               /\ UNCHANGED idx
          ELSE /\ pc' = "compare"
               /\ idx' = idx + 1
               /\ UNCHANGED <<exitCode, exitCause>>
  /\ calls' = Append(calls, <<"save", Loc>>)
  /\ sendResult' = "none"
  /\ did' = did \cup {"save"}
  /\ UNCHANGED <<config, last_statuses, components, current_matches, warned, pass, slept,
                 lastFailed, interrupted, units>>

\* Lines 250-251: the sleep between cycles, outside the try block. The
\* match result and the loop's iterator of the finished pass are dead from
\* here on: the next pass reassigns them before reading them. `components`
\* keeps what the last fetch returned until line 219 assigns it again.
Sleep ==
  /\ pc = "sleep"
  /\ IF SleepRaises(SLEEP_INTERVAL)
     THEN /\ Raise("ValueError", 0, "none")
          /\ UNCHANGED slept
     ELSE /\ slept' = Append(slept, <<"interval", SLEEP_INTERVAL>>)
          /\ pc' = "fetch"
          /\ UNCHANGED <<exitCode, exitCause>>
  /\ current_matches' = <<>>
  /\ idx' = 0
  /\ warned' = {}
  /\ UNCHANGED <<config, store, components, pass, sendResult, calls, lastFailed,
                 interrupted, did, units>>

\* What the state file is after the process was interrupted where it is:
\* inside save_last_statuses, after open(STATUS_FILE, "w") truncated the
\* file (line 94) and before json.dump has written all of it (line 95), a
\* file that is not JSON; the file as it was otherwise.
KilledFiles == IF pc = "save" THEN {status_file, InvalidFile} ELSE {status_file}

\* Lines 187-192: SIGINT or SIGTERM arrives; graceful_shutdown calls
\* sys.exit(0), which raises SystemExit where the process is, inside
\* save_last_statuses too.
Signal ==
  /\ pc \in Running
  /\ Raise("SystemExit", 0, "shutdown")
  /\ status_file' \in KilledFiles
  /\ interrupted' = TRUE
  /\ UNCHANGED <<config, last_statuses, locals, pass, sendResult, calls, slept,
                 lastFailed, did, units>>

\* Lines 255-259: a KeyboardInterrupt raised in main(), inside
\* save_last_statuses too.
KeyboardInterrupt ==
  /\ pc \in Running
  /\ Raise("KeyboardInterrupt", 0, "shutdown")
  /\ status_file' \in KilledFiles
  /\ interrupted' = TRUE
  /\ UNCHANGED <<config, last_statuses, locals, pass, sendResult, calls, slept,
                 lastFailed, did, units>>

Next ==
  \/ Validate
  \/ Load
  \/ FetchOk
  \/ FetchRateLimited
  \/ FetchHttpError
  \/ FetchBadContentType
  \/ FetchException
  \/ FetchMalformed
  \/ SkipCycle
  \/ Match
  \/ Compare
  \/ EndFor
  \/ Send
  \/ Update
  \/ Save
  \/ Sleep
  \/ Signal
  \/ KeyboardInterrupt

Spec == Init /\ [][Next]_vars

\* Runs in which every fetch succeeds with the same body, so that
\* consecutive cycles observe identical fetch data.
InitRepeat ==
  /\ InitProcess
  /\ feed \in { FixedFeed(body) : body \in FetchBodies }

NextRepeat ==
  \/ Validate
  \/ Load
  \/ FetchOk
  \/ SkipCycle
  \/ Match
  \/ Compare
  \/ EndFor
  \/ Send
  \/ Update
  \/ Save
  \/ Sleep
  \/ Signal
  \/ KeyboardInterrupt

SpecRepeat == InitRepeat /\ [][NextRepeat]_vars

\* The loop with no signal and no keyboard interrupt arriving, under fair
\* scheduling: the process is one thread, which takes its next step
\* whenever it has one.
NextLoop ==
  \/ Validate
  \/ Load
  \/ FetchOk
  \/ SkipCycle
  \/ Match
  \/ Compare
  \/ EndFor
  \/ Send
  \/ Update
  \/ Save
  \/ Sleep

SpecConverge == InitRepeat /\ [][NextLoop]_vars /\ WF_vars(NextLoop)

\* ------------------------------------------------------------------------
\* The first pass after a state file that is not JSON
\* ------------------------------------------------------------------------

\* Records of the feed whose "status" is a string, null (None) or missing.
FirstRecords ==
  { [name |-> <<"J">>, status |-> st] : st \in {"operational", None, Missing} }

InitFirst ==
  /\ InitProcess
  /\ status_file = InvalidFile
  /\ feed \in { FixedFeed(body) : body \in SeqsUpTo(FirstRecords, MaxRecords) }

SpecFirst == InitFirst /\ [][NextRepeat]_vars

\* ------------------------------------------------------------------------
\* Kill and restart
\* ------------------------------------------------------------------------

\* The memory of a process that is gone, or not started yet: the module
\* level state of lines 74 and the locals of main; the state file and the
\* configuration stay.
Forget ==
  /\ last_statuses' = DictValue(EmptyDict)
  /\ components' = <<>>
  /\ current_matches' = <<>>
  /\ idx' = 0
  /\ warned' = {}
  /\ fetchKind' = "none"
  /\ retryHint' = NoHint
  /\ sendResult' = "none"
  /\ cycleStart' = DictValue(EmptyDict)
  /\ calls' = <<>>
  /\ sameFetch' = FALSE
  /\ slept' = <<>>
  /\ lastFailed' = EmptyDict

\* SIGKILL (or a power loss): the process ends where it is, without running
\* a handler.
Kill ==
  /\ pc \in Running
  /\ status_file' \in KilledFiles
  /\ pc' = "killed"
  /\ exitCause' = "killed"
  /\ Forget
  /\ UNCHANGED <<config, exitCode, interrupted, did, units>>

\* The supervisor starts the program again on the same state file.
Restart ==
  /\ pc \in {"exited", "crashed", "killed"}
  /\ pc' = "start"
  /\ exitCode' = -1
  /\ exitCause' = "none"
  /\ interrupted' = FALSE
  /\ did' = {"restart"}
  /\ Forget
  /\ UNCHANGED <<config, status_file, units>>

\* The runs in which every fetch, before and after a restart, returns the
\* same body: the other ways a fetch ends leave the store alone.
InitRestart == InitRepeat

NextRestart == NextRepeat \/ Kill \/ Restart

SpecRestart == InitRestart /\ [][NextRestart]_vars

\* ------------------------------------------------------------------------
\* The matcher alone
\* ------------------------------------------------------------------------

\* The process is not started: only the matcher is called.
ProcessIdle ==
  /\ pc = "idle"
  /\ SLACK_WEBHOOK_URL = <<>>
  /\ SLEEP_INTERVAL = DefaultInterval
  /\ status_file = AbsentFile
  /\ last_statuses = DictValue(EmptyDict)
  /\ components = <<>>
  /\ current_matches = <<>>
  /\ idx = 0
  /\ warned = {}
  /\ exitCode = -1
  /\ exitCause = "none"
  /\ fetchKind = "none"
  /\ retryHint = NoHint
  /\ sendResult = "none"
  /\ cycleStart = DictValue(EmptyDict)
  /\ calls = <<>>
  /\ sameFetch = FALSE
  /\ slept = <<>>
  /\ lastFailed = EmptyDict
  /\ interrupted = FALSE
  /\ did = {}
  /\ feed = AnyFeed

InitMatch ==
  /\ ProcessIdle
  /\ mpc = "call"
  /\ mcomponents \in SeqsUpTo(MatchRecords, MaxRecords)
  /\ mtargets \in TargetLists
  /\ mresult = <<>>
  /\ StoreIdle
  /\ FetchIdle

CallMatch ==
  /\ mpc = "call"
  /\ mresult' = find_matching_components(mcomponents, mtargets)
  /\ mpc' = "return"
  /\ UNCHANGED <<mcomponents, mtargets, pvars, svars, fvars>>

NextMatch == CallMatch

SpecMatch == InitMatch /\ [][NextMatch]_vars

\* ------------------------------------------------------------------------
\* The state store alone
\* ------------------------------------------------------------------------

\* The mappings last_statuses can hold: targets to a status or None.
StoreDicts == UNION { [D -> Statuses \cup {None}] : D \in SUBSET Targets }

InitStore ==
  /\ ProcessIdle
  /\ MatchIdle
  /\ FetchIdle
  /\ spc = "save"
  /\ smap \in StoreDicts
  /\ sfile \in InitialFiles
  /\ sresult = NoStoreResult

\* save_last_statuses() with last_statuses = smap
CallSave ==
  /\ spc = "save"
  /\ \E outcome \in SaveOutcomes :
       /\ sfile' = SavedFile(sfile, DictValue(smap), outcome)
       /\ sresult' = [sresult EXCEPT !.before = sfile, !.saved = outcome]
  /\ spc' = "load"
  /\ UNCHANGED <<smap, pvars, mvars, fvars>>

\* load_last_statuses() on the same path
CallLoad ==
  /\ spc = "load"
  /\ \E readable \in BOOLEAN :
       sresult' = [sresult EXCEPT !.readable = readable,
                                  !.value = load_last_statuses(sfile, readable)]
  /\ spc' = "done"
  /\ UNCHANGED <<smap, sfile, pvars, mvars, fvars>>

NextStore == CallSave \/ CallLoad

SpecStore == InitStore /\ [][NextStore]_vars

\* ------------------------------------------------------------------------
\* The fetcher alone
\* ------------------------------------------------------------------------

InitFetch ==
  /\ ProcessIdle
  /\ MatchIdle
  /\ StoreIdle
  /\ fpc = "call"
  /\ fresponse \in Responses
  /\ fresult = <<>>

CallFetch ==
  /\ fpc = "call"
  /\ fresult' = fetch_components(fresponse)
  /\ fpc' = "return"
  /\ UNCHANGED <<fresponse, pvars, mvars, svars>>

NextFetch == CallFetch

SpecFetch == InitFetch /\ [][NextFetch]_vars

\* ------------------------------------------------------------------------
\* Properties
\* ------------------------------------------------------------------------

\* How often the pass made the call `kind` ("send", "set", "save") for t.
Count(kind, t) == Cardinality({ i \in 1..Len(calls) : calls[i] = <<kind, t>> })

\* The calls of the pass that concern target t, in order.
CallsFor(t) == SelectSeq(calls, LAMBDA c : c[2] = t)

\* A pass that fetched data has run to the sleep of line 251.
PassDone == pc = "sleep" /\ fetchKind = "ok" /\ components # <<>>

\* C1: at the end of a pass whose fetch was non-empty, every target of the
\* match result whose matched status differs from the status stored when
\* the pass began has had exactly one notifier call, then one store update,
\* then one save; every target whose status is equal has had none of them.
C1_OneNotificationPerChange ==
  (PassDone /\ cycleStart.kind = "dict") =>
    \A i \in 1..Len(current_matches) :
      LET t == current_matches[i].target
          v == current_matches[i].data.status
      IN IF v # Get(cycleStart.map, t)
         THEN CallsFor(t) = << <<"send", t>>, <<"set", t>>, <<"save", t>> >>
         ELSE CallsFor(t) = <<>>

\* C2: a pass that observes the same fetch data as the pass before it makes
\* no notifier call and no store write.
C2_SecondCycleIdle == sameFetch => calls = <<>>

\* The records of mcomponents whose lowercased name contains target t.
Containing(t) ==
  { i \in 1..Len(mcomponents) : Contains(t, Lower(CompName(mcomponents[i]))) }

\* The match entry the matcher builds from a record.
EntryOf(comp) == [component_name |-> CompName(comp), status |-> CompStatus(comp)]

Min(S) == CHOOSE x \in S : \A y \in S : x <= y

\* C3: the entry the matcher returns for a target is the first record, in
\* source order, whose lowercased name contains the target.
C3_FirstRecordWins ==
  mpc = "return" =>
    \A k \in 1..Len(mtargets) :
      LET t == TargetsClean(mtargets)[k]
      IN HasKey(mresult, t) =>
           /\ Containing(t) # {}
           /\ DictGet(mresult, t) = EntryOf(mcomponents[Min(Containing(t))])

\* C4: a target is a key of the matcher's result if and only if some
\* record's lowercased name contains it, also when that record's name
\* contains another target as well.
C4_KeyIffContained ==
  mpc = "return" =>
    \A k \in 1..Len(mtargets) :
      LET t == TargetsClean(mtargets)[k]
      IN HasKey(mresult, t) <=> Containing(t) # {}

\* C5: once the notifier has been called for a change of target t, the
\* store of the running process holds the new status from the update on,
\* however the call ended; so the notifier is never called for t with the
\* status of a call that delivered nothing.
C5_FailedSendNotRetried ==
  /\ pc = "send" => Get(lastFailed, Loc) # CurrentStatus
  /\ pc = "save" => Get(last_statuses.map, Loc) = CurrentStatus
  /\ (pc \in Running /\ last_statuses.kind = "dict") =>
       \A t \in DOMAIN lastFailed :
         \/ Get(last_statuses.map, t) = lastFailed[t]
         \/ pc = "update" /\ Loc = t

\* C5 witness: a later pass has ended without any call although it matched
\* a target with the status of a notifier call that delivered nothing.
C5_Witness ==
  /\ PassDone
  /\ calls = <<>>
  /\ \E i \in 1..Len(current_matches) :
       Get(lastFailed, current_matches[i].target) = current_matches[i].data.status

\* C6: the process stops running only through a shutdown signal or the
\* webhook validation of startup.
C6_OnlySignalOrValidationStops ==
  pc \in {"exited", "crashed"} => exitCause \in {"shutdown", "validation"}

\* The sleeps recorded in `slept` of the given kinds.
Sleeps(kinds) == SelectSeq(slept, LAMBDA e : e[1] \in kinds)

\* The last fetch of the process returned nothing.
EmptyPass == fetchKind # "none" /\ components = <<>>

\* C7: after a fetch that returned nothing there is no match, no notifier
\* call, no store update and no save; the process sleeps the interval once
\* and is at the fetch of the next pass, unless a signal ended it: it is
\* never at the sleep of line 251 and never ended by an exception.
C7_EmptyFetchSkipsCycle ==
  EmptyPass =>
    /\ calls = <<>>
    /\ last_statuses = cycleStart
    /\ current_matches = <<>>
    /\ \/ pc = "got" /\ Sleeps({"skip", "interval"}) = <<>>
       \/ /\ pc = "fetch"
          /\ Sleeps({"skip", "interval"}) = << <<"skip", SLEEP_INTERVAL>> >>
       \/ pc = "exited" /\ interrupted

RECURSIVE Seconds(_)
Seconds(naps) == IF naps = <<>> THEN 0 ELSE Head(naps)[2] + Seconds(Tail(naps))

\* C8: after a 429 response the time slept until the next fetch is the
\* retry-after duration (60 seconds without a hint), with no interval sleep
\* on top of it.
C8_BackoffIsTheWait ==
  (pc = "fetch" /\ fetchKind = "rate_limited" /\ retryHint.kind \in {"absent", "int"}
     /\ retryHint.n >= 0) =>
    Seconds(slept) = IF retryHint.kind = "absent" THEN DefaultRetryAfter ELSE retryHint.n

\* C9: once a signal or a keyboard interrupt has arrived, the process has
\* exited with code 0, wherever in the pass it arrived.
C9_ShutdownExitsZero ==
  interrupted => pc = "exited" /\ exitCode = 0 /\ exitCause = "shutdown"

\* C9 witness: the signal arrived inside the try block, between the
\* notifier call and the store update.
C9_Witness ==
  /\ interrupted
  /\ pc = "exited"
  /\ sendResult # "none"
  /\ Len(calls) > 0
  /\ calls[Len(calls)][1] = "send"

\* C10: the process exits with code 1 exactly when the webhook URL is set
\* and lacks the Slack prefix, and then before it has loaded the state
\* file, fetched, notified or saved; with the URL unset it goes on to load.
C10_StartupValidation ==
  LET bad == SLACK_WEBHOOK_URL # <<>> /\ SLACK_WEBHOOK_URL[1] # SlackPrefix
  IN /\ exitCode = 1 =>
          bad /\ pc = "exited" /\ exitCause = "validation" /\ did = {}
     /\ (bad /\ pc # "start") => pc = "exited" /\ did = {}
     /\ (bad /\ pc = "exited" /\ ~interrupted) => exitCode = 1
     /\ (~bad /\ pc \in Running \ {"start", "load"}) => "load" \in did

C11_FirstStatusIsAChange ==
  (PassDone /\ ~sameFetch /\ cycleStart = DictValue(EmptyDict)) =>
    \A i \in 1..Len(current_matches) :
      LET t == current_matches[i].target
          v == current_matches[i].data.status
      IN /\ Count("send", t) = 1
         /\ t \in DOMAIN last_statuses.map
         /\ last_statuses.map[t] = v


\* The entry of a target in the in-memory store and in the state file.
NoEntry == [json |-> "absent", text |-> ""]
MemEntryOf(statuses, t) ==
  IF statuses.kind = "dict" /\ t \in DOMAIN statuses.map
  THEN JsonEncode(statuses.map[t]) ELSE NoEntry
FileEntryOf(file, t) ==
  IF file.kind = "json_object" /\ t \in DOMAIN file.map
  THEN file.map[t] ELSE NoEntry

\* C13 as stated: no step of a pass changes the entry, in memory or in the
\* state file, of a configured target that the pass reported as not found.
C13_AbsentTargetUntouched ==
  [][\A t \in warned :
       /\ MemEntryOf(last_statuses', t) = MemEntryOf(last_statuses, t)
       /\ FileEntryOf(status_file', t) = FileEntryOf(status_file, t)]_vars

\* C13, amended: a pass logs the warning for exactly the configured targets
\* that are no key of the match result and then runs the for loop over the
\* matched ones; it makes no notifier call, update or save for a target it
\* warned about and never changes that target's in-memory entry; the
\* target's entry in the state file changes only when a save made for
\* another target rewrites the file, and then to the in-memory entry, or to
\* nothing when the write fails or is interrupted after truncating the file.
C13_AbsentTargetKept ==
  /\ [](pc \in {"compare", "send", "update", "save"} =>
          /\ warned = { t \in Targets : ~HasKey(current_matches, t) }
          /\ \A t \in warned : CallsFor(t) = <<>>)
  /\ [][/\ (pc = "got" /\ warned' # {}) => (pc' = "compare" /\ idx' = 1)
        /\ \A t \in warned :
             /\ MemEntryOf(last_statuses', t) = MemEntryOf(last_statuses, t)
             /\ FileEntryOf(status_file', t) # FileEntryOf(status_file, t) =>
                  /\ pc = "save"
                  /\ Loc # t
                  /\ FileEntryOf(status_file', t)
                       \in {NoEntry, MemEntryOf(last_statuses, t)}]_vars

\* A pass warned about jakarta, whose entry the store holds, and notified
\* and saved the change of singapore.
C13_Witness ==
  /\ PassDone
  /\ warned = {<<"j">>}
  /\ MemEntryOf(last_statuses, <<"j">>) = JsonString("operational")
  /\ Count("send", <<"s">>) = 1
  /\ Count("save", <<"s">>) = 1


\* C14: save_last_statuses() never raises to main, so a pass that fetched
\* data and compares against a dict runs its for loop to the end: every
\* item of the match result is compared before the sleep of line 251.
C14_SaveNeverRaises ==
  (PassDone /\ last_statuses.kind = "dict") => idx > Len(current_matches)


\* C15: whatever the state file holds, last_statuses is a mapping (a dict)
\* in every state of the process, so that last_statuses.get at line 238
\* cannot raise.
C15_LoadReturnsMapping == last_statuses.kind = "dict"


\* The response is a 200 with a JSON content type whose body is an object
\* with a list under "components".
WellShaped(resp) ==
  /\ resp.net = "ok"
  /\ resp.code = 200
  /\ resp.json_ct
  /\ resp.body.shape = "object"
  /\ resp.body.components.type = "list"

\* C16: fetch_components() returns a list; the list is empty unless the
\* response is a 200 with a JSON content type and an object body with a
\* list under "components"; every element of a returned list is a record
\* (a JSON object), which the matcher can process.
C16_FetchReturnsRecords ==
  fpc = "return" =>
    /\ fresult.value.type = "list"
    /\ ~WellShaped(fresponse) => fresult.value = EmptyList
    /\ \A i \in 1..Len(fresult.value.items) : IsRecord(fresult.value.items[i])


\* C17: a step inside save_last_statuses() -- a save that completes, one
\* that fails, or a kill or a signal in the middle of the write -- leaves in the state
\* file every entry that an earlier save had persisted there (an entry of
\* another target than the one being saved, equal in the file and in
\* memory), so that a restart loads it.
C17_InterruptedWriteKeepsEntries ==
  [][\A t \in Targets :
       (/\ pc = "save"
        /\ t # Loc
        /\ FileEntryOf(status_file, t) # NoEntry
        /\ FileEntryOf(status_file, t) = MemEntryOf(last_statuses, t))
         => FileEntryOf(status_file', t) = FileEntryOf(status_file, t)]_vars

\* The last call of the pass so far.
LastCall == IF calls = <<>> THEN <<"none", <<>>>> ELSE calls[Len(calls)]

\* C19: the store is updated only at line 244, right after the notifier was
\* called for that target and status, and saved only after that update; so,
\* across signals, kills and restarts, an entry appears in memory only by
\* loading it from the state file or after send_slack_alert was invoked for
\* it, and an entry appears in the state file only as a copy of the entry
\* in memory.
C19_NotifiedBeforeStored ==
  /\ [](/\ pc = "update" => LastCall = <<"send", Loc>>
        /\ pc = "save" =>
             /\ LastCall = <<"set", Loc>>
             /\ calls[Len(calls) - 1] = <<"send", Loc>>)
  /\ [][\A t \in Targets :
         /\ (/\ MemEntryOf(last_statuses', t) # MemEntryOf(last_statuses, t)
             /\ MemEntryOf(last_statuses', t) # NoEntry)
              => \/ /\ pc = "load"
                    /\ MemEntryOf(last_statuses', t) = FileEntryOf(status_file, t)
                 \/ /\ pc = "update"
                    /\ Loc = t
                    /\ LastCall = <<"send", t>>
                    /\ MemEntryOf(last_statuses', t) = JsonEncode(CurrentStatus)
         /\ (/\ FileEntryOf(status_file', t) # FileEntryOf(status_file, t)
             /\ FileEntryOf(status_file', t) # NoEntry)
              => /\ pc = "save"
                 /\ FileEntryOf(status_file', t) = MemEntryOf(last_statuses, t)]_vars

\* A restarted process has loaded an entry that no initial state file
\* holds: a run before the restart notified, stored and saved it.
C19_Witness ==
  /\ "restart" \in did
  /\ pc = "fetch"
  /\ "fetch" \notin did
  /\ MemEntryOf(last_statuses, <<"s">>) = JsonString("major_outage")


\* C18: once the configuration is resolved and validated, the interval the
\* loop sleeps for is a positive number of seconds, and no sleep of main
\* ends the process with an exception.
C18_IntervalPositive ==
  /\ pc \in Running \ {"start"} => SLEEP_INTERVAL > 0
  /\ exitCause \notin ExceptionClasses


\* The in-memory store maps every target matched in the data the feed
\* serves to its matched status.
StoreCurrent ==
  LET matches == find_matching_components(feed.body, TARGET_LOCATIONS)
  IN /\ last_statuses.kind = "dict"
     /\ \A i \in 1..Len(matches) :
          MemEntryOf(last_statuses, matches[i].target)
            = JsonEncode(matches[i].data.status)

\* C20: when every fetch returns the same non-empty data, no signal arrives
\* and the process runs its loop (the webhook URL passes the validation,
\* the interval is positive), then from some point on the in-memory store
\* maps every matched target to its matched status for good and the
\* process is never again at a notifier call, a store update or a save.
C20_Converges ==
  (/\ feed.body # <<>>
   /\ SLEEP_INTERVAL > 0
   /\ (SLACK_WEBHOOK_URL = <<>> \/ StartsWithPrefix(SLACK_WEBHOOK_URL)))
    => <>[](StoreCurrent /\ pc \notin {"send", "update", "save"})

====
